---- MODULE Spec2Model ----
(***************************************************************************)
(* Model of the person Registry (database.py, PersonDatabase) and of the   *)
(* face Matcher (face_utils.py, FaceRecognitionSystem).                    *)
(*                                                                         *)
(* Numbers: an embedding component is an integer number of tenths, a       *)
(* distance and a confidence are integer numbers of thousandths, a         *)
(* timestamp is a tick of the clock `now`.  An optional value (Python      *)
(* None / SQL NULL) is the empty tuple, a present value x is <<x>>.        *)
(***************************************************************************)
EXTENDS Integers, Sequences, FiniteSets, TLC

\* ---------------------------------------------------------------- bounds
\* number of calls made in a run
MaxOps == 4
\* number of persons in the store the statistics are taken of
StatPersons == 6

\* ------------------------------------------------------------- constants
Tolerance == 600
MaxWidth == 800

None == <<>>
Some(x) == <<x>>

\* ------------------------------------------------------------ input sets
\* every name there is, in ascending order of its bytes
NameOrder == <<"Alice", "Bob", "Carol", "Unknown">>
\* names add_person is called with
Names == {NameOrder[i] : i \in 1..2}
\* names update_person is called with: none, the empty string, a name
NameArgs == {None, Some("")} \cup {Some(n) : n \in Names \cup {"Carol"}}
\* names typed into a registration form
RegisterNames == {"Alice", "Unknown"}
AddEncodings == {<<>>, <<3, 0>>}
MdCamera == << <<"registered_via", "camera">> >>
MdRole == << <<"role", "Visitor">> >>
MdUpload == << <<"registered_via", "upload">> >>
Metadatas == {None, Some(MdRole)}
Confidences == {None, Some(400)}

\* ----------------------------------------------------------------- state
VARIABLES persons,              \* table persons: id -> row
          detection_logs,       \* table detection_logs: set of rows
          sqlite_sequence,      \* AUTOINCREMENT counters of the two tables
          now,                  \* the clock datetime.now() reads
          known_face_encodings, known_face_names, known_face_ids,
          logged,               \* per stored person: the log_detection calls
                                \* that returned since it was added
          last,                 \* the last call: [op, arg, ret, open]
          steps                 \* number of calls made

store == <<persons, detection_logs, sqlite_sequence>>
projection == <<known_face_encodings, known_face_names, known_face_ids>>
vars == <<persons, detection_logs, sqlite_sequence, now,
          known_face_encodings, known_face_names, known_face_ids,
          logged, last, steps>>

\* ids a caller can pass: every id handed out so far and the next one
IdArgs == 1..(sqlite_sequence.persons + 1)

\* ------------------------------------------------------------------ json
Digits == <<"0", "1", "2", "3", "4", "5", "6", "7", "8", "9">>
DigitValue(c) == (CHOOSE i \in 1..Len(Digits) : Digits[i] = c) - 1

\* mutant: the fraction is dropped on writing
FloatRepr_Truncated(x) == <<Digits[(x \div 10) + 1], ".", "0">>

\* repr of the float x/10, as json.dumps writes it: "0.3", "1.0"
FloatRepr(x) == <<Digits[(x \div 10) + 1], ".", Digits[(x % 10) + 1]>>
ParseFloat(t) == 10 * DigitValue(t[1]) + DigitValue(t[3])

RECURSIVE JoinFloats(_)
JoinFloats(xs) ==
    IF xs = <<>> THEN <<>>
    ELSE IF Len(xs) = 1 THEN FloatRepr(xs[1])
    ELSE FloatRepr(xs[1]) \o <<",", " ">> \o JoinFloats(Tail(xs))

\* json.dumps of a list of floats: the text, one character per element
json_dumps_list(xs) == <<"[">> \o JoinFloats(xs) \o <<"]">>

RECURSIVE ParseFloats(_)
ParseFloats(t) ==
    IF t = <<>> THEN <<>>
    ELSE IF Len(t) = 3 THEN <<ParseFloat(t)>>
    ELSE <<ParseFloat(SubSeq(t, 1, 3))>> \o ParseFloats(SubSeq(t, 6, Len(t)))

\* json.loads of such a text
json_loads_list(t) == ParseFloats(SubSeq(t, 2, Len(t) - 1))

RECURSIVE JoinPairs(_)
JoinPairs(d) ==
    IF d = <<>> THEN <<>>
    ELSE IF Len(d) = 1 THEN <<"\"", d[1][1], "\"", ":", " ", "\"", d[1][2], "\"">>
    ELSE <<"\"", d[1][1], "\"", ":", " ", "\"", d[1][2], "\"", ",", " ">>
         \o JoinPairs(Tail(d))

\* json.dumps of a dict of strings (a dict is the sequence of its items)
json_dumps_dict(d) == <<"{">> \o JoinPairs(d) \o <<"}">>

RECURSIVE ParsePairs(_)
ParsePairs(t) ==
    IF t = <<>> THEN <<>>
    ELSE IF Len(t) = 8 THEN << <<t[2], t[7]>> >>
    ELSE << <<t[2], t[7]>> >> \o ParsePairs(SubSeq(t, 11, Len(t)))

json_loads_dict(t) == ParsePairs(SubSeq(t, 2, Len(t) - 1))

\* -------------------------------------------------------------- Registry
Raise(kind) == [kind |-> kind, val |-> <<>>]
Return(v) == [kind |-> "return", val |-> <<v>>]
ReturnNone == [kind |-> "return", val |-> <<>>]

RowsOf(logs, id) == {r \in logs : r.person_id = id}

\* dict(row) with the two json columns decoded
PersonDict(id, row) ==
    [id |-> id,
     name |-> row.name,
     face_encoding |-> json_loads_list(row.face_encoding),
     registration_date |-> row.registration_date,
     last_seen |-> row.last_seen,
     total_detections |-> row.total_detections,
     metadata |-> IF row.metadata # None
                  THEN json_loads_dict(row.metadata[1]) ELSE <<>>]

NameTaken(name) == \E id \in DOMAIN persons : persons[id].name = name

\* An outcome of a call that writes: what it returns or raises (ret), the
\* tables after it, and the number of connections it opened and has not
\* closed when control is back at the caller (open).

\* the INSERT of add_person and its commit; the finally clause closes
InsertPerson(name, face_encoding, metadata) ==
    LET person_id == sqlite_sequence.persons + 1
        row == [name |-> name,
                face_encoding |-> json_dumps_list(face_encoding),
                registration_date |-> now,
                last_seen |-> None,
                total_detections |-> 0,
                metadata |-> Some(json_dumps_dict(
                    IF metadata = None THEN <<>> ELSE metadata[1]))]
    IN [ret |-> Return(person_id),
        persons |-> [id \in DOMAIN persons \cup {person_id} |->
                        IF id = person_id THEN row ELSE persons[id]],
        seq |-> [sqlite_sequence EXCEPT !.persons = person_id],
        open |-> 0]

\* mutant: the table lacks UNIQUE(name)
add_person_NoUnique(name, face_encoding, metadata) ==
    InsertPerson(name, face_encoding, metadata)

\* add_person: UNIQUE(name) fails the INSERT with IntegrityError, raised as
\* ValueError, and nothing is committed
add_person(name, face_encoding, metadata) ==
    IF NameTaken(name)
    THEN [ret |-> Raise("ValueError"),
          persons |-> persons,
          seq |-> sqlite_sequence,
          open |-> 0]
    ELSE InsertPerson(name, face_encoding, metadata)

\* mutant: the UPDATE has no WHERE clause
update_person_NoWhere(person_id, name, metadata) ==
    LET setName == name # None /\ name[1] # ""
        setMd == metadata # None
    IN IF setName /\ Cardinality(DOMAIN persons) > 1
       THEN [ret |-> Raise("IntegrityError"), persons |-> persons, open |-> 1]
       ELSE [ret |-> ReturnNone, open |-> 0,
             persons |-> [id \in DOMAIN persons |->
                 [persons[id] EXCEPT
                    !.name = IF setName THEN name[1] ELSE @,
                    !.metadata = IF setMd
                                 THEN Some(json_dumps_dict(metadata[1]))
                                 ELSE @]]]

\* update_person: name is applied when truthy, metadata when not None; a name
\* another row holds violates UNIQUE(name): the statement is rolled back and
\* the IntegrityError leaves the method before its conn.close()
update_person(person_id, name, metadata) ==
    LET setName == name # None /\ name[1] # ""
        setMd == metadata # None
        hit == person_id \in DOMAIN persons /\ (setName \/ setMd)
        clash == hit /\ setName
                 /\ \E id \in DOMAIN persons \ {person_id} :
                        persons[id].name = name[1]
        row == IF hit
               THEN [persons[person_id] EXCEPT
                       !.name = IF setName THEN name[1] ELSE @,
                       !.metadata = IF setMd
                                    THEN Some(json_dumps_dict(metadata[1]))
                                    ELSE @]
               ELSE <<>>
    IN IF clash
       THEN [ret |-> Raise("IntegrityError"), persons |-> persons, open |-> 1]
       ELSE [ret |-> ReturnNone,
             persons |-> IF hit THEN [persons EXCEPT ![person_id] = row]
                         ELSE persons,
             open |-> 0]

\* delete_person: both DELETE statements, committed together
delete_person(person_id) ==
    [ret |-> ReturnNone,
     persons |-> [id \in DOMAIN persons \ {person_id} |-> persons[id]],
     logs |-> detection_logs \ RowsOf(detection_logs, person_id),
     open |-> 0]

get_person_by_id(person_id) ==
    IF person_id \in DOMAIN persons
    THEN Some(PersonDict(person_id, persons[person_id]))
    ELSE None

\* log_detection: INSERT then UPDATE in one transaction, then commit.
\* fault: the call fails after the INSERT and before the commit, and the
\* error leaves the method before its conn.close(); the transaction is
\* rolled back when the connection is dropped.
\* db: the tables the call finds, [persons, logs, seq]
LogDetectionOn(db, person_id, confidence, fault) ==
    LET current_time == now
        log_id == db.seq.detection_logs + 1
        inserted == db.logs \cup
                    {[id |-> log_id, person_id |-> person_id,
                      detection_time |-> current_time,
                      confidence |-> confidence]}
        updated == IF person_id \in DOMAIN db.persons
                   THEN [db.persons EXCEPT
                           ![person_id].last_seen = Some(current_time),
                           ![person_id].total_detections = @ + 1]
                   ELSE db.persons
    IN IF fault
       THEN [ret |-> Raise("OperationalError"),
             persons |-> db.persons, logs |-> db.logs,
             seq |-> db.seq, open |-> 1]
       ELSE [ret |-> ReturnNone,
             persons |-> updated, logs |-> inserted,
             seq |-> [db.seq EXCEPT !.detection_logs = log_id],
             open |-> 0]

log_detection(person_id, confidence, fault) ==
    LogDetectionOn([persons |-> persons, logs |-> detection_logs,
                    seq |-> sqlite_sequence],
                   person_id, confidence, fault)

\* ORDER BY last_seen DESC, name ASC: NULL sorts below every timestamp, so
\* it comes last under DESC; names compare by their place in NameOrder
NameRank(name) == CHOOSE i \in 1..Len(NameOrder) : NameOrder[i] = name
\* mutant: NULL sorts above every timestamp
SeenKey_NullHigh(row) == IF row.last_seen = None THEN 9 ELSE row.last_seen[1]

SeenKey(row) == IF row.last_seen = None THEN 0 ELSE row.last_seen[1]
Before(p, q) ==
    \/ SeenKey(p) > SeenKey(q)
    \/ SeenKey(p) = SeenKey(q) /\ NameRank(p.name) < NameRank(q.name)

\* the ids of the rows of the table ps, in that order
RECURSIVE OrderedIds(_, _)
OrderedIds(ps, ids) ==
    IF ids = {} THEN <<>>
    ELSE LET first == CHOOSE i \in ids :
                 \A j \in ids \ {i} : Before(ps[i], ps[j])
         IN <<first>> \o OrderedIds(ps, ids \ {first})

\* the SELECT of get_all_persons over the table ps
AllPersons(ps) ==
    LET ids == OrderedIds(ps, DOMAIN ps)
    IN [k \in 1..Len(ids) |-> PersonDict(ids[k], ps[ids[k]])]

get_all_persons == AllPersons(persons)

\* get_detection_stats: the three SELECTs over the rows whose detection_time
\* is above the cutoff.  A day is one tick of the clock.  The JOIN keeps the
\* rows of stored persons only; rows of equal count come out in an order SQL
\* leaves open, here by id, ascending or descending (tie).
TopLimit == 5

\* mutant: the cutoff itself is inside the window
RecentRows_Inclusive(days) ==
    {r \in detection_logs : r.detection_time >= now - days}

RecentRows(days) == {r \in detection_logs : r.detection_time > now - days}

RECURSIVE CountOrder(_, _, _)
CountOrder(ids, rows, tie) ==
    IF ids = {} THEN <<>>
    ELSE LET n(i) == Cardinality(RowsOf(rows, i))
             first == CHOOSE i \in ids : \A j \in ids \ {i} :
                          \/ n(i) > n(j)
                          \/ n(i) = n(j) /\ (IF tie = "asc" THEN i < j ELSE i > j)
         IN <<first>> \o CountOrder(ids \ {first}, rows, tie)

top_visitors(rows, tie) ==
    LET ids == CountOrder({id \in DOMAIN persons : RowsOf(rows, id) # {}},
                          rows, tie)
        n == IF Len(ids) < TopLimit THEN Len(ids) ELSE TopLimit
    IN [k \in 1..n |->
            <<persons[ids[k]].name, Cardinality(RowsOf(rows, ids[k]))>>]

get_detection_stats(days, tie) ==
    LET rows == RecentRows(days)
    IN [total_detections |-> Cardinality(rows),
        unique_persons |-> Cardinality({r.person_id : r \in rows}),
        top_visitors |-> top_visitors(rows, tie)]

\* --------------------------------------------------------------- Matcher
\* A frame is what the face library finds in it at the working resolution:
\* its faces, each a box (top, right, bottom, left) and an embedding.
Face(top, right, bottom, left, enc) ==
    [location |-> <<top, right, bottom, left>>, encoding |-> enc]
Frames ==
    { [width |-> 640, faces |-> <<>>],
      [width |-> 640, faces |-> <<Face(10, 50, 50, 10, <<0, 0>>)>>],
      [width |-> 640, faces |-> <<Face(10, 50, 50, 10, <<6, 0>>)>>],
      [width |-> 1600, faces |-> <<Face(10, 30, 30, 10, <<3, 0>>),
                                   Face(40, 100, 100, 40, <<6, 6>>)>>],
      [width |-> 640, faces |-> <<Face(10, 50, 50, 10, <<6, 0>>),
                                  Face(60, 50, 100, 10, <<0, 0>>)>>] }

RECURSIVE SqrtBetween(_, _, _)
SqrtBetween(x, lo, hi) ==
    IF lo = hi THEN lo
    ELSE LET mid == (lo + hi + 1) \div 2
         IN IF mid * mid <= x THEN SqrtBetween(x, mid, hi)
            ELSE SqrtBetween(x, lo, mid - 1)
RECURSIVE SqrtAbove(_, _)
SqrtAbove(x, h) == IF h * h > x THEN h ELSE SqrtAbove(x, 2 * h)
\* the integer square root
Sqrt(x) == SqrtBetween(x, 0, SqrtAbove(x, 1))

RECURSIVE SumSquares(_, _)
SumSquares(a, b) ==
    IF a = <<>> THEN 0
    ELSE (a[1] - b[1]) * (a[1] - b[1]) + SumSquares(Tail(a), Tail(b))

\* face_recognition.face_distance: the Euclidean norm of the difference,
\* in thousandths (components are tenths)
EuclideanDistance(a, b) == Sqrt(10000 * SumSquares(a, b))
face_distance(known, face_encoding) ==
    [k \in 1..Len(known) |-> EuclideanDistance(known[k], face_encoding)]

\* face_recognition.compare_faces: distance <= tolerance
compare_faces(known, face_encoding, tolerance) ==
    [k \in 1..Len(known) |-> face_distance(known, face_encoding)[k] <= tolerance]

\* mutant: of equal minima the last one is taken
argmin_Last(xs) == CHOOSE i \in 1..Len(xs) :
    /\ \A j \in 1..Len(xs) : xs[i] <= xs[j]
    /\ \A j \in (i + 1)..Len(xs) : xs[j] > xs[i]

\* np.argmin / np.argmax: the first index holding the extreme value
argmin(xs) == CHOOSE i \in 1..Len(xs) :
    /\ \A j \in 1..Len(xs) : xs[i] <= xs[j]
    /\ \A j \in 1..(i - 1) : xs[j] > xs[i]
\* mutant: the first face is taken
argmax_First(xs) == 1

argmax(xs) == CHOOSE i \in 1..Len(xs) :
    /\ \A j \in 1..Len(xs) : xs[i] >= xs[j]
    /\ \A j \in 1..(i - 1) : xs[j] < xs[i]

\* int(coord * scale_factor) with scale_factor = width / 800
ScaleBack(width, location) ==
    IF width > MaxWidth
    THEN [k \in 1..4 |-> (location[k] * width) \div MaxWidth]
    ELSE location

Unrecognized(width, face) ==
    [location |-> ScaleBack(width, face.location),
     name |-> "Unknown", person_id |-> None, confidence |-> 0]

BestMatch(width, face, best_match_index, face_distances) ==
    [location |-> ScaleBack(width, face.location),
     name |-> known_face_names[best_match_index],
     person_id |-> Some(known_face_ids[best_match_index]),
     confidence |-> 1000 - face_distances[best_match_index]]

\* mutant: the nearest known face is taken whatever its distance
recognize_face_NoTolerance(width, face) ==
    IF known_face_encodings = <<>> THEN Unrecognized(width, face)
    ELSE LET face_distances == face_distance(known_face_encodings,
                                             face.encoding)
         IN BestMatch(width, face, argmin(face_distances), face_distances)

\* the loop body of recognize_faces for one detected face
recognize_face(width, face) ==
    IF known_face_encodings = <<>> THEN Unrecognized(width, face)
    ELSE LET matches == compare_faces(known_face_encodings,
                                      face.encoding, Tolerance)
             face_distances == face_distance(known_face_encodings,
                                             face.encoding)
             best_match_index == argmin(face_distances)
         IN IF (\E k \in 1..Len(matches) : matches[k])
               /\ matches[best_match_index]
            THEN BestMatch(width, face, best_match_index, face_distances)
            ELSE Unrecognized(width, face)

recognize_faces(frame) ==
    [k \in 1..Len(frame.faces) |-> recognize_face(frame.width, frame.faces[k])]

\* load_known_faces: the three lists rebuilt from get_all_persons, skipping
\* a person whose encoding is falsy (the empty list)
RECURSIVE Loadable(_)
Loadable(ps) ==
    IF ps = <<>> THEN <<>>
    ELSE (IF ps[1].face_encoding # <<>> THEN <<ps[1]>> ELSE <<>>)
         \o Loadable(Tail(ps))

\* mutant: the three lists are not emptied before the loop
load_known_faces_NoReset ==
    LET ps == Loadable(get_all_persons)
    IN [encodings |-> known_face_encodings
                      \o [k \in 1..Len(ps) |-> ps[k].face_encoding],
        names |-> known_face_names \o [k \in 1..Len(ps) |-> ps[k].name],
        ids |-> known_face_ids \o [k \in 1..Len(ps) |-> ps[k].id]]

\* the three lists as they are
CurrentKnownFaces ==
    [encodings |-> known_face_encodings,
     names |-> known_face_names, ids |-> known_face_ids]

\* the three lists load_known_faces builds from the listing `all`
KnownFaces(all) ==
    LET ps == Loadable(all)
    IN [encodings |-> [k \in 1..Len(ps) |-> ps[k].face_encoding],
        names |-> [k \in 1..Len(ps) |-> ps[k].name],
        ids |-> [k \in 1..Len(ps) |-> ps[k].id]]

load_known_faces == KnownFaces(get_all_persons)

\* register_new_face: outcome [ret, persons, seq, encodings, names, ids]
RegisterFailed(ret) ==
    [ret |-> ret, persons |-> persons, seq |-> sqlite_sequence,
     encodings |-> known_face_encodings,
     names |-> known_face_names, ids |-> known_face_ids]

\* its try block, on the largest face.  extracted: FALSE when
\* face_encodings raises
RegisterLargest(frame, name, metadata, extracted) ==
    LET face_locations == [k \in 1..Len(frame.faces) |->
                              frame.faces[k].location]
        face_sizes == [k \in 1..Len(face_locations) |->
                          (face_locations[k][3] - face_locations[k][1])
                          * (face_locations[k][2] - face_locations[k][4])]
        best_face_idx == argmax(face_sizes)
        face_encoding == frame.faces[best_face_idx].encoding
        added == add_person(name, face_encoding, metadata)
    IN IF ~extracted \/ added.ret.kind # "return"
       THEN RegisterFailed(Return(FALSE))
       ELSE [ret |-> Return(TRUE),
             persons |-> added.persons, seq |-> added.seq,
             encodings |-> Append(known_face_encodings, face_encoding),
             names |-> Append(known_face_names, name),
             ids |-> Append(known_face_ids, added.ret.val[1])]

\* mutant: no check for an empty face list, so np.argmax raises on it
register_new_face_NoFaceCheck(frame, name, metadata, extracted) ==
    IF frame.faces = <<>> THEN RegisterFailed(Raise("ValueError"))
    ELSE RegisterLargest(frame, name, metadata, extracted)

\* mutant: the name is appended to the projection before add_person is tried
register_new_face_AppendFirst(frame, name, metadata, extracted) ==
    IF frame.faces = <<>> THEN RegisterFailed(Return(FALSE))
    ELSE LET r == RegisterLargest(frame, name, metadata, extracted)
         IN IF r.ret = Return(TRUE) THEN r
            ELSE [r EXCEPT !.names = Append(known_face_names, name)]

register_new_face(frame, name, metadata, extracted) ==
    IF frame.faces = <<>> THEN RegisterFailed(Return(FALSE))
    ELSE RegisterLargest(frame, name, metadata, extracted)

\* --------------------------------------------------------------- actions
\* One action per call: the call's effect on the store and the projection,
\* `last` set to the call, and `logged` following log_detection.

Step == steps < MaxOps /\ steps' = steps + 1

\* a call that left `open` of its connections open
CallLeaving(op, arg, ret, open) ==
    [op |-> op, arg |-> arg, ret |-> ret, open |-> open]
\* a call that opened no connection or closed every one it opened
Call(op, arg, ret) == CallLeaving(op, arg, ret, 0)

\* time passes between calls
Tick ==
    /\ Step
    /\ now' = now + 1
    /\ last' = Call("tick", <<>>, ReturnNone)
    /\ UNCHANGED <<store, projection, logged>>

Added(id) ==
    [i \in DOMAIN logged \cup {id} |->
        IF i = id THEN [n |-> 0, t |-> None] ELSE logged[i]]

AddPerson(name, face_encoding, metadata) ==
    LET r == add_person(name, face_encoding, metadata) IN
    /\ Step
    /\ persons' = r.persons
    /\ sqlite_sequence' = r.seq
    /\ logged' = IF r.ret.kind = "return" THEN Added(r.ret.val[1]) ELSE logged
    /\ last' = CallLeaving("add_person", <<name, face_encoding, metadata>>,
                           r.ret, r.open)
    /\ UNCHANGED <<detection_logs, now, projection>>

UpdatePerson(person_id, name, metadata) ==
    LET r == update_person(person_id, name, metadata) IN
    /\ Step
    /\ persons' = r.persons
    /\ last' = CallLeaving("update_person", <<person_id, name, metadata>>,
                           r.ret, r.open)
    /\ UNCHANGED <<detection_logs, sqlite_sequence, now, projection, logged>>

DeletePerson(person_id) ==
    LET r == delete_person(person_id) IN
    /\ Step
    /\ persons' = r.persons
    /\ detection_logs' = r.logs
    /\ logged' = [i \in DOMAIN logged \ {person_id} |-> logged[i]]
    /\ last' = CallLeaving("delete_person", <<person_id>>, r.ret, r.open)
    /\ UNCHANGED <<sqlite_sequence, now, projection>>

LogDetection(person_id, confidence, fault) ==
    LET r == log_detection(person_id, confidence, fault) IN
    /\ Step
    /\ persons' = r.persons
    /\ detection_logs' = r.logs
    /\ sqlite_sequence' = r.seq
    /\ logged' = IF r.ret.kind = "return" /\ person_id \in DOMAIN logged
                 THEN [logged EXCEPT ![person_id] =
                          [n |-> @.n + 1, t |-> Some(now)]]
                 ELSE logged
    /\ last' = CallLeaving("log_detection", <<person_id, confidence>>,
                           r.ret, r.open)
    /\ UNCHANGED <<now, projection>>

LoadKnownFaces ==
    LET r == load_known_faces IN
    /\ Step
    /\ known_face_encodings' = r.encodings
    /\ known_face_names' = r.names
    /\ known_face_ids' = r.ids
    /\ last' = Call("load_known_faces", <<>>, ReturnNone)
    /\ UNCHANGED <<store, now, logged>>

RecognizeFaces(frame) ==
    /\ Step
    /\ last' = Call("recognize_faces", <<frame>>,
                    Return(recognize_faces(frame)))
    /\ UNCHANGED <<store, now, projection, logged>>

RegisterNewFace(frame, name, metadata, extracted) ==
    LET r == register_new_face(frame, name, metadata, extracted) IN
    /\ Step
    /\ persons' = r.persons
    /\ sqlite_sequence' = r.seq
    /\ known_face_encodings' = r.encodings
    /\ known_face_names' = r.names
    /\ known_face_ids' = r.ids
    /\ logged' = IF r.ret = Return(TRUE) THEN Added(r.seq.persons) ELSE logged
    /\ last' = Call("register_new_face", <<frame, name, extracted>>, r.ret)
    /\ UNCHANGED <<detection_logs, now>>

\* ------------------------------------------------------- the application
\* One action per run of the script that a user's click starts.

\* the loop over recognized_faces, from face k to face n: log_detection for
\* every face whose name is not "Unknown"
RECURSIVE CameraLogs(_, _, _, _)
CameraLogs(faces, k, n, db) ==
    IF k > n THEN db
    ELSE IF faces[k].name = "Unknown" THEN CameraLogs(faces, k + 1, n, db)
    ELSE LET r == LogDetectionOn(db, faces[k].person_id[1],
                                 Some(faces[k].confidence), FALSE)
         IN CameraLogs(faces, k + 1, n,
                       [persons |-> r.persons, logs |-> r.logs, seq |-> r.seq])

\* Live Camera with a picture taken.  press: the unknown face whose Register
\* button was clicked with `name` typed in, or 0.  A registration that
\* succeeds ends the run (st.rerun) at that face.  Its INSERT touches no row
\* the log_detection calls before it wrote, so it is applied first here.
AppCamera(frame, press, name, extracted) ==
    /\ Step
    /\ \E recognized_faces \in {recognize_faces(frame)} :
       /\ press > 0 => recognized_faces[press].name = "Unknown"
       /\ \E reg \in {IF press > 0
                      THEN register_new_face(frame, name, Some(MdCamera),
                                             extracted)
                      ELSE RegisterFailed(Return(FALSE))} :
          \E n \in {IF reg.ret = Return(TRUE) THEN press
                    ELSE Len(recognized_faces)} :
          \E db \in {CameraLogs(recognized_faces, 1, n,
                                [persons |-> reg.persons,
                                 logs |-> detection_logs,
                                 seq |-> reg.seq])} :
          LET known == {k \in 1..n : recognized_faces[k].name # "Unknown"}
              base == IF reg.ret = Return(TRUE) THEN Added(reg.seq.persons)
                      ELSE logged
              times(id) == Cardinality({k \in known :
                               recognized_faces[k].person_id = Some(id)})
          IN /\ persons' = db.persons
             /\ detection_logs' = db.logs
             /\ sqlite_sequence' = db.seq
             /\ known_face_encodings' = reg.encodings
             /\ known_face_names' = reg.names
             /\ known_face_ids' = reg.ids
             /\ logged' = [id \in DOMAIN base |->
                              IF times(id) = 0 THEN base[id]
                              ELSE [n |-> base[id].n + times(id),
                                    t |-> Some(now)]]
             /\ last' = Call("camera", <<frame, press, name>>,
                             Return([faces |-> recognized_faces,
                                     prompted |-> (1..n) \ known,
                                     logged |-> known]))
             /\ UNCHANGED now

\* Register New Person: the form on an uploaded image, with a name typed in
AppRegister(frame, name, extracted) ==
    RegisterNewFace(frame, name, Some(MdUpload), extracted)

\* mutant: Update Person does not reload the known faces
AppUpdate_NoReload(person_id, name, metadata) ==
    UpdatePerson(person_id, name, metadata)

\* Manage Database, Update Person: update_person, then load_known_faces
\* unless update_person raised
AppUpdate(person_id, name, metadata) ==
    LET r == update_person(person_id, name, metadata)
        f == IF r.ret.kind = "return" THEN KnownFaces(AllPersons(r.persons))
             ELSE CurrentKnownFaces
    IN /\ Step
       /\ persons' = r.persons
       /\ known_face_encodings' = f.encodings
       /\ known_face_names' = f.names
       /\ known_face_ids' = f.ids
       /\ last' = CallLeaving("update_person", <<person_id, name, metadata>>,
                              r.ret, r.open)
       /\ UNCHANGED <<detection_logs, sqlite_sequence, now, logged>>

\* Manage Database, Delete Person: delete_person, then load_known_faces
AppDelete(person_id) ==
    LET r == delete_person(person_id)
        f == KnownFaces(AllPersons(r.persons))
    IN /\ Step
       /\ persons' = r.persons
       /\ detection_logs' = r.logs
       /\ known_face_encodings' = f.encodings
       /\ known_face_names' = f.names
       /\ known_face_ids' = f.ids
       /\ logged' = [i \in DOMAIN logged \ {person_id} |-> logged[i]]
       /\ last' = CallLeaving("delete_person", <<person_id>>, r.ret, r.open)
       /\ UNCHANGED <<sqlite_sequence, now>>

GetAllPersons ==
    /\ last' = Call("get_all_persons", <<>>, Return(get_all_persons))
    /\ UNCHANGED <<store, now, projection, logged, steps>>

GetDetectionStats(days, tie) ==
    /\ last' = Call("get_detection_stats", <<days>>,
                    Return(get_detection_stats(days, tie)))
    /\ UNCHANGED <<store, now, projection, logged, steps>>

\* ------------------------------------------------------------------ spec
\* FaceRecognitionSystem(PersonDatabase()) on a fresh persons.db
Init ==
    /\ persons = <<>>
    /\ detection_logs = {}
    /\ sqlite_sequence = [persons |-> 0, detection_logs |-> 0]
    /\ now = 1
    /\ known_face_encodings = <<>>
    /\ known_face_names = <<>>
    /\ known_face_ids = <<>>
    /\ logged = <<>>
    /\ last = Call("init", <<>>, ReturnNone)
    /\ steps = 0

CallAddPerson ==
    \E name \in Names, e \in AddEncodings, md \in Metadatas :
        AddPerson(name, e, md)
CallUpdatePerson ==
    \E id \in IdArgs, name \in NameArgs, md \in Metadatas :
        UpdatePerson(id, name, md)
CallDeletePerson == \E id \in IdArgs : DeletePerson(id)
CallLogDetection ==
    \E id \in IdArgs, c \in Confidences, fault \in BOOLEAN :
        LogDetection(id, c, fault)
CallRecognizeFaces == \E frame \in Frames : RecognizeFaces(frame)
CallRegisterNewFace ==
    \E frame \in Frames, name \in Names, extracted \in BOOLEAN :
        RegisterNewFace(frame, name, Some(MdCamera), extracted)

\* the Registry, called in any order with any arguments
RegistryNext ==
    \/ Tick
    \/ CallAddPerson
    \/ CallUpdatePerson
    \/ CallDeletePerson
    \/ CallLogDetection

SpecRegistry == Init /\ [][RegistryNext]_vars

\* the Matcher, over a Registry that is also written to directly
MatcherNext ==
    \/ CallAddPerson
    \/ CallDeletePerson
    \/ LoadKnownFaces
    \/ CallRecognizeFaces
    \/ CallRegisterNewFace

SpecMatcher == Init /\ [][MatcherNext]_vars

\* The statistics query, over a store that was filled on three days: each
\* person was detected on the days its entry of the profile lists, and one
\* row may name a person that was never stored.
VisitorNames == <<"V1", "V2", "V3", "V4", "V5", "V6", "V7", "V8">>
VisitDays == {<<1>>, <<1, 3>>, <<2, 3, 3>>}
StatDays == 0..3

Visits(profile, orphan) ==
    UNION {{<<profile[i][j], i, j>> : j \in 1..Len(profile[i])} :
              i \in DOMAIN profile}
    \cup (IF orphan THEN {<<3, Len(profile) + 1, 1>>} ELSE {})

Earlier(a, b) ==
    \/ a[1] < b[1]
    \/ a[1] = b[1] /\ a[2] < b[2]
    \/ a[1] = b[1] /\ a[2] = b[2] /\ a[3] < b[3]

\* the rows log_detection wrote for the visits, in the order of the visits
VisitRows(visits) ==
    {[id |-> Cardinality({q \in visits : Earlier(q, v)}) + 1,
      person_id |-> v[2],
      detection_time |-> v[1],
      confidence |-> Some(400)] : v \in visits}

\* the rows add_person wrote and log_detection updated
VisitorRows(profile, names) ==
    [i \in DOMAIN profile |->
        [name |-> names[i],
         face_encoding |-> json_dumps_list(<<3, 0>>),
         registration_date |-> 1,
         last_seen |-> IF profile[i] = <<>> THEN None
                       ELSE Some(profile[i][Len(profile[i])]),
         total_detections |-> Len(profile[i]),
         metadata |-> Some(json_dumps_dict(<<>>))]]

\* a freshly constructed system on the persons.db these visits left
Filled(profile, names, orphan) ==
    LET visits == Visits(profile, orphan) IN
    /\ persons = VisitorRows(profile, names)
    /\ detection_logs = VisitRows(visits)
    /\ sqlite_sequence = [persons |-> Len(profile),
                          detection_logs |-> Cardinality(visits)]
    /\ now = 3
    /\ known_face_encodings = <<>>
    /\ known_face_names = <<>>
    /\ known_face_ids = <<>>
    /\ logged = [i \in DOMAIN profile |->
                    [n |-> Len(profile[i]),
                     t |-> IF profile[i] = <<>> THEN None
                           ELSE Some(profile[i][Len(profile[i])])]]
    /\ last = Call("init", <<>>, ReturnNone)
    /\ steps = 0

InitStats ==
    \E profile \in [1..StatPersons -> VisitDays], orphan \in BOOLEAN :
        Filled(profile, VisitorNames, orphan)

CallGetDetectionStats ==
    \E days \in StatDays, tie \in {"asc", "desc"} :
        GetDetectionStats(days, tie)

StatsNext == CallGetDetectionStats

SpecStats == InitStats /\ [][StatsNext]_vars

\* The listing query, over a store of three persons registered in any order
\* of their names, each never detected or last detected on day 1 or day 2.
ListedNames ==
    {names \in [1..3 -> {NameOrder[i] : i \in 1..3}] :
        \A i, j \in 1..3 : i # j => names[i] # names[j]}
ListedDays == {<<>>, <<1>>, <<2>>}

InitListing ==
    \E profile \in [1..3 -> ListedDays], names \in ListedNames :
        Filled(profile, names, FALSE)

ListingNext == GetAllPersons

SpecListing == InitListing /\ [][ListingNext]_vars

\* The application: one user after the construction, clicking in any order.
\* A form is submitted with a name typed in, an Update with a name or with
\* the field emptied; the person edited or deleted is one of those listed.
CameraForms ==
    {[press |-> 0, name |-> ""]}
    \cup {[press |-> k, name |-> n] : k \in 1..2, n \in RegisterNames}
CallAppCamera ==
    \E frame \in Frames, form \in CameraForms :
        /\ form.press <= Len(frame.faces)
        /\ AppCamera(frame, form.press, form.name, TRUE)
CallAppRegister ==
    \E frame \in Frames, name \in RegisterNames :
        AppRegister(frame, name, TRUE)
CallAppUpdate ==
    \E id \in DOMAIN persons, name \in NameArgs \ {None} :
        AppUpdate(id, name, Some(MdRole))
CallAppDelete == \E id \in DOMAIN persons : AppDelete(id)

AppNext ==
    \/ CallAppCamera
    \/ CallAppRegister
    \/ CallAppUpdate
    \/ CallAppDelete
    \/ LoadKnownFaces

SpecApp == Init /\ [][AppNext]_vars

Next == RegistryNext \/ MatcherNext \/ StatsNext \/ ListingNext \/ AppNext

Spec == Init /\ [][Next]_vars

\* ---------------------------------------------------------------- claims
LatestRow(rows) == CHOOSE r \in rows : \A q \in rows : q.id <= r.id
IsCall(op) == last.op = op
Returned(v) == last.ret = Return(v)

\* C1: after any sequence of Registry calls, with any id arguments, every
\* stored person's total_detections is the number of detection_logs rows
\* whose person_id is its id, and its last_seen is null or the
\* detection_time of the most recent such row.
C1_CountersMatchLog ==
    \A id \in DOMAIN persons :
        LET rows == RowsOf(detection_logs, id) IN
        /\ persons[id].total_detections = Cardinality(rows)
        /\ \/ persons[id].last_seen = None
           \/ /\ rows # {}
              /\ persons[id].last_seen = Some(LatestRow(rows).detection_time)

\* C2: a stored person for which log_detection returned N times since it was
\* added has total_detections = N, last_seen = the timestamp of the Nth call
\* (null when N = 0), and exactly N detection_logs rows with its id.
C2_NCallsCounted ==
    \A id \in DOMAIN persons :
        /\ persons[id].total_detections = logged[id].n
        /\ persons[id].last_seen = logged[id].t
        /\ Cardinality(RowsOf(detection_logs, id)) = logged[id].n

\* C3: add_person with a name a stored person has raises ValueError, inserts
\* no row, and leaves the persons rows and the detection_logs rows as they
\* were.
C3_DuplicateNameRejected ==
    [][(last'.op = "add_person" /\ NameTaken(last'.arg[1]))
       => /\ last'.ret = Raise("ValueError")
          /\ persons' = persons
          /\ detection_logs' = detection_logs]_vars

C3_Witness ==
    /\ IsCall("add_person")
    /\ last.ret = Raise("ValueError")
    /\ persons # <<>>
    /\ detection_logs # {}

\* C4: add_person with a name no stored person has returns an id that was
\* never handed out, and get_person_by_id of that id then returns a person
\* with that name, that embedding, total_detections 0 and last_seen null.
C4_AddThenGet ==
    [][(last'.op = "add_person" /\ ~NameTaken(last'.arg[1]))
       => /\ last'.ret.kind = "return"
          /\ LET id == last'.ret.val[1] IN
             /\ id > sqlite_sequence.persons
             /\ id \notin DOMAIN persons
             /\ id \in DOMAIN persons'
             /\ LET p == PersonDict(id, persons'[id]) IN
                /\ p.id = id
                /\ p.name = last'.arg[1]
                /\ p.face_encoding = last'.arg[2]
                /\ p.total_detections = 0
                /\ p.last_seen = None]_vars

C4_Witness ==
    /\ IsCall("add_person")
    /\ last.ret.kind = "return"
    /\ last.arg[2] # <<>>
    /\ get_person_by_id(last.ret.val[1]) # None
    /\ Cardinality(DOMAIN persons) > 1

\* C5: delete_person(id) removes the person with that id and every
\* detection_logs row with that person_id, leaves every other person and
\* every other row as it was, makes get_person_by_id(id) absent, and changes
\* nothing when no person has that id.
C5_DeleteContract ==
    [][last'.op = "delete_person"
       => LET id == last'.arg[1] IN
          /\ DOMAIN persons' = DOMAIN persons \ {id}
          /\ \A other \in DOMAIN persons' : persons'[other] = persons[other]
          /\ detection_logs' = detection_logs \ RowsOf(detection_logs, id)
          /\ id \notin DOMAIN persons'
          /\ id \notin DOMAIN persons
                => persons' = persons /\ detection_logs' = detection_logs]_vars

\* C6: with one known embedding E and a detected face with embedding E',
\* recognize_faces returns that person's name and id with confidence
\* 1 - d(E,E') when d(E,E') < 0.6, and "Unknown", null, 0 when
\* d(E,E') >= 0.6 or when the projection is empty.
IsUnknown(res) ==
    res.name = "Unknown" /\ res.person_id = None /\ res.confidence = 0
IsKnown(res, k, d) ==
    /\ res.name = known_face_names[k]
    /\ res.person_id = Some(known_face_ids[k])
    /\ res.confidence = 1000 - d
SingleKnown(matched(_)) ==
    (IsCall("recognize_faces") /\ Len(known_face_encodings) <= 1)
    => LET faces == last.arg[1].faces
           results == last.ret.val[1]
       IN /\ Len(results) = Len(faces)
          /\ \A k \in 1..Len(faces) :
                IF known_face_encodings = <<>> THEN IsUnknown(results[k])
                ELSE LET d == EuclideanDistance(known_face_encodings[1],
                                                faces[k].encoding)
                     IN IF matched(d) THEN IsKnown(results[k], 1, d)
                        ELSE IsUnknown(results[k])
Below(d) == d < Tolerance
Within(d) == d <= Tolerance

C6_SingleKnownBelow == SingleKnown(Below)

\* C6 as amended: the person is returned when d(E,E') <= 0.6, the distance
\* 0.6 included, and "Unknown", null, 0 when d(E,E') > 0.6 or when the
\* projection is empty.
C6_SingleKnownWithin == SingleKnown(Within)

C6_Witness ==
    /\ IsCall("recognize_faces")
    /\ Len(known_face_encodings) = 1
    /\ \E k \in 1..Len(last.arg[1].faces) :
          /\ EuclideanDistance(known_face_encodings[1],
                               last.arg[1].faces[k].encoding) = Tolerance
          /\ last.ret.val[1][k].confidence = 1000 - Tolerance

\* C7: register_new_face on a frame with no face returns False, writes
\* nothing to the Registry and leaves the projection as it was.
C7_NoFaceNoWrite ==
    [][(last'.op = "register_new_face" /\ last'.arg[1].faces = <<>>)
       => /\ last'.ret = Return(FALSE)
          /\ UNCHANGED store
          /\ UNCHANGED projection]_vars

C7_Witness ==
    /\ IsCall("register_new_face")
    /\ last.arg[1].faces = <<>>
    /\ Returned(FALSE)
    /\ persons # <<>>
    /\ known_face_ids # <<>>

\* C8: register_new_face on a frame with several faces, one of them of
\* strictly largest area (bottom - top) * (right - left), persists that
\* face's embedding for the new person, and no other face's.
Area(face) ==
    (face.location[3] - face.location[1])
    * (face.location[2] - face.location[4])
StrictlyLargest(faces, k) ==
    \A j \in 1..Len(faces) : j # k => Area(faces[j]) < Area(faces[k])

C8_LargestFacePersisted ==
    (IsCall("register_new_face") /\ Returned(TRUE)
        /\ Len(last.arg[1].faces) > 1)
    => LET faces == last.arg[1].faces
           p == get_person_by_id(sqlite_sequence.persons)
       IN /\ p # None
          /\ p[1].name = last.arg[2]
          /\ \A k \in 1..Len(faces) :
                StrictlyLargest(faces, k)
                => /\ p[1].face_encoding = faces[k].encoding
                   /\ \A j \in 1..Len(faces) :
                         faces[j].encoding # faces[k].encoding
                         => p[1].face_encoding # faces[j].encoding

C8_Witness ==
    /\ IsCall("register_new_face")
    /\ Returned(TRUE)
    /\ \E k \in 2..Len(last.arg[1].faces) :
          /\ StrictlyLargest(last.arg[1].faces, k)
          /\ persons[sqlite_sequence.persons].face_encoding
                = json_dumps_list(last.arg[1].faces[k].encoding)

\* C9: when add_person fails on a duplicate name, or when the embedding
\* extraction raises, register_new_face returns False and the projection and
\* the stored persons are as they were before the call.
C9_FailureReturnsFalse ==
    [][(/\ last'.op = "register_new_face"
        /\ last'.arg[1].faces # <<>>
        /\ (NameTaken(last'.arg[2]) \/ ~last'.arg[3]))
       => /\ last'.ret = Return(FALSE)
          /\ UNCHANGED projection
          /\ persons' = persons]_vars

C9_Witness ==
    /\ IsCall("register_new_face")
    /\ last.arg[1].faces # <<>>
    /\ last.arg[3]
    /\ NameTaken(last.arg[2])
    /\ Returned(FALSE)
    /\ known_face_ids # <<>>

\* C10: for any person_id, a log_detection call leaves a detection_logs row
\* behind if and only if it also leaves behind the person's counter
\* increment and last_seen update.
C10_LogAndCounterTogether ==
    [][last'.op = "log_detection"
       => LET id == last'.arg[1] IN
          (detection_logs' # detection_logs)
          <=> /\ id \in DOMAIN persons
              /\ id \in DOMAIN persons'
              /\ persons'[id].total_detections
                    = persons[id].total_detections + 1
              /\ persons'[id].last_seen = Some(now)]_vars
\* the rows inside the window of the last get_detection_stats call, and the
\* number of them a person has
InWindow == {r \in detection_logs : r.detection_time > now - last.arg[1]}
CountInWindow(id) == Cardinality({r \in InWindow : r.person_id = id})

\* C11: get_detection_stats(days) returns as total_detections the number of
\* rows whose detection_time is strictly greater than now - days, as
\* unique_persons the number of distinct person ids among those rows, and as
\* top_visitors at most 5 entries, in descending order of count, each the
\* name of a stored person with the number of that person's rows in the
\* window.
C11_StatsWindow ==
    IsCall("get_detection_stats") =>
        LET stats == last.ret.val[1]
            top == stats.top_visitors
        IN /\ stats.total_detections = Cardinality(InWindow)
           /\ stats.unique_persons =
                  Cardinality({r.person_id : r \in InWindow})
           /\ Len(top) <= 5
           /\ \A i, j \in 1..Len(top) : i < j => top[i][2] >= top[j][2]
           /\ \A i \in 1..Len(top) : \E id \in DOMAIN persons :
                  /\ persons[id].name = top[i][1]
                  /\ top[i][2] = CountInWindow(id)

\* more than five persons have rows in the window, with different counts,
\* and there are rows outside it, one of them exactly at the cutoff
C11_Witness ==
    /\ IsCall("get_detection_stats")
    /\ Cardinality({id \in DOMAIN persons : CountInWindow(id) > 0}) > 5
    /\ \E r \in detection_logs : r.detection_time = now - last.arg[1]
    /\ \E r \in detection_logs : r.detection_time < now - last.arg[1]
    /\ \E i, j \in DOMAIN persons : CountInWindow(i) > CountInWindow(j)
    /\ \E r \in InWindow : r.person_id \notin DOMAIN persons
    /\ Len(last.ret.val[1].top_visitors) = 5

\* the projection holds one entry, the same in the three lists, for every
\* person of `ids` and for nobody else
ProjectionIs(ids) ==
    /\ Len(known_face_encodings) = Len(known_face_ids)
    /\ Len(known_face_names) = Len(known_face_ids)
    /\ {known_face_ids[k] : k \in 1..Len(known_face_ids)} = ids
    /\ Len(known_face_ids) = Cardinality(ids)
    /\ \A k \in 1..Len(known_face_ids) :
           LET id == known_face_ids[k] IN
           id \in DOMAIN persons =>
               /\ known_face_names[k] = persons[id].name
               /\ known_face_encodings[k] =
                      json_loads_list(persons[id].face_encoding)

HasEmbedding(id) == json_loads_list(persons[id].face_encoding) # <<>>

\* C12 as stated: whatever the projection held before, after
\* load_known_faces it holds exactly one entry for every stored person and
\* none for anyone else, entry k of the three lists being of one person.
C12_LoadAllPersons ==
    IsCall("load_known_faces") => ProjectionIs(DOMAIN persons)

\* C12 amended: the same for the stored persons whose embedding is not
\* empty; a person stored with an empty embedding has no entry.
C12_LoadPersonsWithEmbedding ==
    IsCall("load_known_faces") =>
        ProjectionIs({id \in DOMAIN persons : HasEmbedding(id)})

\* a load with a person to list, a person to skip, and nothing else listed
C12_Witness ==
    /\ IsCall("load_known_faces")
    /\ \E id \in DOMAIN persons : HasEmbedding(id)
    /\ \E id \in DOMAIN persons : ~HasEmbedding(id)
    /\ known_face_ids # <<>>

\* C13: update_person(id, name, metadata) leaves the set of persons, every
\* other person and every detection_logs row as they were; of the person
\* itself it leaves face_encoding, registration_date, last_seen and
\* total_detections, and the name or the metadata that was not supplied;
\* with neither supplied, and with an id no person has, it changes nothing
\* and returns without an error.
C13_UpdateOnlySupplied ==
    [][last'.op = "update_person" =>
        LET id == last'.arg[1]
            name == last'.arg[2]
            metadata == last'.arg[3]
        IN /\ DOMAIN persons' = DOMAIN persons
           /\ detection_logs' = detection_logs
           /\ \A o \in DOMAIN persons \ {id} : persons'[o] = persons[o]
           /\ id \in DOMAIN persons =>
                /\ persons'[id].face_encoding = persons[id].face_encoding
                /\ persons'[id].registration_date =
                       persons[id].registration_date
                /\ persons'[id].last_seen = persons[id].last_seen
                /\ persons'[id].total_detections =
                       persons[id].total_detections
                /\ name = None => persons'[id].name = persons[id].name
                /\ metadata = None =>
                       persons'[id].metadata = persons[id].metadata
           /\ (name = None /\ metadata = None) =>
                  persons' = persons /\ last'.ret = ReturnNone
           /\ id \notin DOMAIN persons =>
                  persons' = persons /\ last'.ret = ReturnNone]_vars

\* a person that was detected, and is not the only one, has been renamed
C13_Witness ==
    /\ IsCall("update_person")
    /\ last.ret = ReturnNone
    /\ last.arg[2] # None /\ last.arg[3] = None
    /\ Cardinality(DOMAIN persons) > 1
    /\ detection_logs # {}
    /\ \E id \in DOMAIN persons :
           /\ id = last.arg[1]
           /\ persons[id].total_detections > 0
           /\ persons[id].name = last.arg[2][1]
           /\ persons[id].name \notin Names

\* C14: get_all_persons returns every stored person exactly once; a person
\* with a last_seen comes before every person without one, a later
\* last_seen before an earlier one, and of two persons with the same
\* last_seen (or both without) the one whose name is smaller comes first.
C14_AllPersonsOrdered ==
    IsCall("get_all_persons") =>
        LET ps == last.ret.val[1] IN
        /\ Len(ps) = Cardinality(DOMAIN persons)
        /\ \A id \in DOMAIN persons : \E k \in 1..Len(ps) :
               ps[k] = PersonDict(id, persons[id])
        /\ \A i, j \in 1..Len(ps) : i < j =>
               LET a == ps[i].last_seen
                   b == ps[j].last_seen
               IN \/ a # None /\ b = None
                  \/ a # None /\ b # None /\ a[1] > b[1]
                  \/ a = b /\ NameRank(ps[i].name) < NameRank(ps[j].name)

\* the listing is in the order of neither the ids nor the names: it has a
\* person never seen, after two seen on different days
C14_Witness ==
    /\ IsCall("get_all_persons")
    /\ LET ps == last.ret.val[1] IN
       /\ Len(ps) = 3
       /\ ps[1].last_seen = Some(2)
       /\ ps[2].last_seen = Some(1)
       /\ ps[3].last_seen = None
       /\ ps[1].id > ps[2].id
       /\ NameRank(ps[1].name) > NameRank(ps[2].name)
       /\ NameRank(ps[2].name) > NameRank(ps[3].name)

\* C17: every Registry call has closed the connection it opened when it
\* returns or raises, so no connection is open between two calls.
C17_ConnectionClosed == last.open = 0

ProjectedPairs ==
    {<<known_face_ids[k], known_face_names[k]>> :
        k \in 1..Len(known_face_ids)}
StoredPairs == {<<id, persons[id].name>> : id \in DOMAIN persons}

\* C15: in the application, after every completed user action, whatever
\* the order of the actions, the (id, name) pairs of the projection are the
\* (id, name) pairs of the stored persons, the three lists being of one
\* length.
C15_ProjectionFollowsStore ==
    /\ Len(known_face_names) = Len(known_face_ids)
    /\ Len(known_face_encodings) = Len(known_face_ids)
    /\ ProjectedPairs = StoredPairs

\* after registrations, a rename and a deletion the projection still lists
\* a person, under the new name
C15_Witness ==
    /\ IsCall("delete_person")
    /\ sqlite_sequence.persons >= 2
    /\ \E id \in DOMAIN persons : persons[id].name = "Carol"
    /\ \E k \in 1..Len(known_face_names) : known_face_names[k] = "Carol"

\* the distance of known entry i to face k of the last recognize_faces call,
\* and the entries within the tolerance of that face
DistanceTo(k, i) ==
    EuclideanDistance(known_face_encodings[i], last.arg[1].faces[k].encoding)
WithinTolerance(k) ==
    {i \in 1..Len(known_face_encodings) : DistanceTo(k, i) <= Tolerance}
Nearer(k, i, j) ==
    \/ DistanceTo(k, i) < DistanceTo(k, j)
    \/ DistanceTo(k, i) = DistanceTo(k, j) /\ i <= j

\* C16: for a face that several known entries are within the tolerance of,
\* recognize_faces returns the name and the id of the entry at the smallest
\* distance, and of several entries at that distance the first in the order
\* of the projection.
C16_NearestThenFirst ==
    IsCall("recognize_faces") =>
        \A k \in 1..Len(last.ret.val[1]) :
            Cardinality(WithinTolerance(k)) >= 2 =>
                LET m == CHOOSE i \in WithinTolerance(k) :
                             \A j \in WithinTolerance(k) : Nearer(k, i, j)
                IN /\ last.ret.val[1][k].person_id = Some(known_face_ids[m])
                   /\ last.ret.val[1][k].name = known_face_names[m]

\* two entries of different persons are at the same, smallest, distance of
\* a face, and the first of them was returned
C16_Witness ==
    /\ IsCall("recognize_faces")
    /\ \E k \in 1..Len(last.ret.val[1]) :
       \E i, j \in WithinTolerance(k) :
           /\ i < j
           /\ DistanceTo(k, i) = DistanceTo(k, j)
           /\ \A o \in WithinTolerance(k) : DistanceTo(k, i) <= DistanceTo(k, o)
           /\ known_face_ids[i] # known_face_ids[j]
           /\ known_face_names[i] # known_face_names[j]
           /\ last.ret.val[1][k].person_id = Some(known_face_ids[i])

\* C18: for every face a camera run recognized, the name is "Unknown"
\* exactly when person_id is null, whatever names persons were registered
\* under; so the run prompts for a registration exactly the faces that
\* matched nobody and logs a detection for exactly the faces that matched a
\* person.
C18_UnknownIffNoPerson ==
    IsCall("camera") =>
        LET run == last.ret.val[1] IN
        \A k \in run.prompted \cup run.logged :
            /\ run.faces[k].name = "Unknown" <=> run.faces[k].person_id = None
            /\ k \in run.prompted <=> run.faces[k].person_id = None
            /\ k \in run.logged <=> run.faces[k].person_id # None

====
